---- MODULE Spec2Model ----
(***************************************************************************)
(* A model of deal.II's ChunkSparsityPattern                               *)
(* (lac/source/chunk_sparsity_pattern.cc).                                 *)
(*                                                                         *)
(* The object's fields rows, cols, chunk_size and sparsity_pattern are the *)
(* state.  Every member function is one action; the last call and its      *)
(* arguments are kept in `last`, the exception it raised (if any) in `err`.*)
(*                                                                         *)
(* The library is modelled in its debug configuration: every Assert is     *)
(* active, and a failed Assert raises its exception at that point of the   *)
(* function, before the statements that follow it.                         *)
(*                                                                         *)
(* The wrapped SparsityPattern is not among the sources.  It is modelled   *)
(* from the description of the coarse structure: a set of (chunk row,      *)
(* chunk column) pairs with a capacity per chunk row (the SP_ operators).  *)
(***************************************************************************)
EXTENDS Integers, FiniteSets, Sequences, TLC

\* ------------------------------------------------------------------------
\* Bounds of the model
\* ------------------------------------------------------------------------

\* largest m and n passed to reinit, and largest index passed to add
MaxDim == 3

\* largest chunk_size passed to reinit by a caller
MaxChunk == 2

\* largest entry of a row_lengths array, and largest max_per_row
MaxLen == 1

\* largest quotient an untrapped unsigned division by zero is taken to give
MaxUB == 1

\* largest numbers of rows and of columns of a matrix or pattern handed to
\* copy_from, and the largest number of entries in one of its rows
MaxSrcRows == 2

MaxSrcCols == 5

MaxSrcLen == 2

\* ------------------------------------------------------------------------
\* unsigned int arithmetic
\* ------------------------------------------------------------------------

\* unsigned int is 32 bits wide.  The sums formed below stay far under 2^32
\* for the dimensions of the model, so they are written without the wrap.
\*
\* Numbers of 2^31 and more come up only where block_read takes a number
\* from a file.  The integers of the checker stop at 2^31-1, so such a value
\* u is held as u - 2^32, the number the same 32 bits give when read with a
\* sign: 4294967294 is held as -2, 4294967295 as -1.  What is below 2^31 is
\* held as it is.

\* 2^32-1 = 10 * UMaxDiv10 + UMaxMod10, the largest unsigned int
UMaxDiv10 == 429496729

UMaxMod10 == 5

\* 2^31-1 = 10 * IMaxDiv10 + IMaxMod10, the largest value held as it is
IMaxDiv10 == 214748364

IMaxMod10 == 7

\* 2^32-1 as it is held
UMax == -1

\* 0 - v on unsigned int
UNeg(v) == IF v = -IMaxDiv10 * 10 - IMaxMod10 - 1 THEN v ELSE 0 - v

\* v / 10 and v % 10 on unsigned int, for v of 2^31 and more as well:
\* 2^32 = 10 * UMaxDiv10 + UMaxMod10 + 1
UDiv10(v) ==
  IF v >= 0 THEN v \div 10
  ELSE UMaxDiv10 + ((v + UMaxMod10 + 1) \div 10)

UMod10(v) ==
  IF v >= 0 THEN v % 10 ELSE (v + UMaxMod10 + 1) % 10

\* outcome of a division that raised the hardware's divide error
Trap == -1

\* a/b on unsigned int.  Division by zero is undefined behaviour: the build
\* either traps or yields some quotient.
UDiv(a, b) ==
  IF b = 0 THEN (0..MaxUB) \cup {Trap} ELSE {a \div b}

std_max(a, b) == IF a < b THEN b ELSE a

std_min(a, b) == IF b < a THEN b ELSE a

std_abs(a) == IF a < 0 THEN 0 - a ELSE a

\* std::vector<unsigned int>: a function on 0..size-1
Vec(k, S) == [0..(k-1) -> S]

size(v) == Cardinality(DOMAIN v)

\* ------------------------------------------------------------------------
\* The coarse structure (SparsityPattern)
\* ------------------------------------------------------------------------

\* the diagonal chunks of an m x n structure
SP_diagonal(m, n) == {<<r, r>> : r \in 0..(std_min(m, n) - 1)}

\* SparsityPattern::reinit(m, n, row_lengths, optimize_diag): an m x n
\* structure with row_lengths[r] as capacity of chunk row r.  With
\* optimize_diag the diagonal chunk entries are pre-allocated: they are in
\* the structure from the start, in storage of their own beside the
\* capacities; without it no chunk is present.
SP_reinit(m, n, row_lengths, optimize_diag) ==
  [rows |-> m, cols |-> n, row_lengths |-> row_lengths,
   optimize_diag |-> optimize_diag,
   entries |-> IF optimize_diag THEN SP_diagonal(m, n) ELSE {},
   compressed |-> FALSE]

\* the chunks the structure holds in pre-allocated storage
SP_preallocated(sp) ==
  IF sp.optimize_diag THEN SP_diagonal(sp.rows, sp.cols) ELSE {}

\* SparsityPattern::exists(r, c)
SP_exists(sp, r, c) == <<r, c>> \in sp.entries

\* number of chunks chunk row r holds against its capacity
SP_row_length(sp, r) ==
  Cardinality({e \in sp.entries \ SP_preallocated(sp) : e[1] = r})

\* SparsityPattern::empty()
SP_empty(sp) == sp.entries = {}

\* The exception SparsityPattern::add(r, c) raises, "none" if it succeeds.
\* Inserting a chunk that is present is a no-op; a new chunk needs an
\* uncompressed structure and spare capacity in its chunk row.
SP_add_err(sp, r, c) ==
  IF r >= sp.rows \/ c >= sp.cols THEN "ExcIndexRange"
  ELSE IF sp.compressed THEN "ExcMatrixIsCompressed"
  ELSE IF <<r, c>> \in sp.entries THEN "none"
  ELSE IF SP_row_length(sp, r) >= sp.row_lengths[r] THEN "ExcNotEnoughSpace"
  ELSE "none"

\* SparsityPattern::add(r, c)
SP_add(sp, r, c) ==
  IF SP_add_err(sp, r, c) = "none"
    THEN [sp EXCEPT !.entries = @ \cup {<<r, c>>}]
    ELSE sp

\* SparsityPattern::bandwidth(): the largest |r - c| of a chunk present
SP_bandwidth(sp) ==
  IF sp.entries = {} THEN 0
  ELSE CHOOSE b \in 0..(sp.rows + sp.cols) :
         /\ \E e \in sp.entries : b = std_abs(e[1] - e[2])
         /\ \A e \in sp.entries : b >= std_abs(e[1] - e[2])

\* SparsityPattern::compress(): finalizes; a no-op on a compressed structure
SP_compress(sp) == [sp EXCEPT !.compressed = TRUE]

\* the transposes of the chunks present that are not present themselves
SP_missing(sp) == {<<e[2], e[1]>> : e \in sp.entries} \ sp.entries

\* no chunk row holds more chunks than its capacity once T is inserted
SP_fits(sp, T) ==
  \A r \in 0..(sp.rows - 1) :
    Cardinality({e \in (sp.entries \cup T) \ SP_preallocated(sp) : e[1] = r})
      <= sp.row_lengths[r]

\* SparsityPattern::symmetrize(): inserts the transpose of every chunk
\* present.  It is a modification, so it needs an uncompressed structure, and
\* a transposed chunk needs a chunk row, so the structure must be square.
\* Each insertion needs spare capacity as in add; when one of them finds
\* none, the call ends there with some of the transposes inserted.
SP_symmetrize(sp) ==
  IF sp.compressed
    THEN {[sp |-> sp, err |-> "ExcMatrixIsCompressed"]}
  ELSE IF sp.rows # sp.cols
    THEN {[sp |-> sp, err |-> "ExcNotQuadratic"]}
  ELSE IF SP_fits(sp, SP_missing(sp))
    THEN {[sp |-> [sp EXCEPT !.entries = @ \cup SP_missing(sp)],
           err |-> "none"]}
  ELSE {[sp |-> [sp EXCEPT !.entries = @ \cup T],
         err |-> "ExcNotEnoughSpace"] :
          T \in {U \in SUBSET SP_missing(sp) :
                   U # SP_missing(sp) /\ SP_fits(sp, U)}}

\* ------------------------------------------------------------------------
\* State
\* ------------------------------------------------------------------------

VARIABLES
  rows,              \* ChunkSparsityPattern::rows
  cols,              \* ChunkSparsityPattern::cols
  chunk_size,        \* ChunkSparsityPattern::chunk_size
  sparsity_pattern,  \* ChunkSparsityPattern::sparsity_pattern
  err,               \* exception raised by the last call, "none" if none
  halted,            \* the process was stopped by a divide error
  unwritten,         \* the members among rows, cols, chunk_size that no
                     \* statement has written: each holds whatever its
                     \* storage held, and its value here stands for nothing
  last,              \* the last call and its arguments
  source,            \* the matrix or pattern the caller holds for copy_from
  stream             \* the file block_write writes and block_read reads

vars ==
  <<rows, cols, chunk_size, sparsity_pattern, err, halted, unwritten, last,
    source, stream>>

\* the record kept in `last`
Call(op, a) ==
  [op |-> op, m |-> a[1], n |-> a[2], row_lengths |-> a[3],
   chunk_size |-> a[4], optimize_diag |-> a[5], i |-> a[6], j |-> a[7],
   rep |-> FALSE]

\* the record of add(i, j); rep tells that the indices are in range and the
\* call before it was the same
AddCall(i, j) ==
  [Call("add", <<0, 0, <<>>, 0, FALSE, i, j>>) EXCEPT
     !.rep = (i < rows /\ j < cols /\
              last.op = "add" /\ last.i = i /\ last.j = j)]

\* the fields of the object as a record
This ==
  [rows |-> rows, cols |-> cols, chunk_size |-> chunk_size,
   sparsity_pattern |-> sparsity_pattern]

\* the members without an initializer in the constructors
Members == {"rows", "cols", "chunk_size"}

\* An object whose members are not yet initialized by a constructor body:
\* the SparsityPattern member is default constructed; rows, cols and
\* chunk_size have no initializer and hold whatever the storage held, any
\* unsigned int.  The 0 in their place stands for no value: a call on a new
\* object tells which members it has written, and the others are unwritten.
SP_default == SP_reinit(0, 0, <<>>, FALSE)

Unconstructed ==
  [rows |-> 0, cols |-> 0, chunk_size |-> 0, sparsity_pattern |-> SP_default]

\* ------------------------------------------------------------------------
\* ChunkSparsityPattern::reinit
\* ------------------------------------------------------------------------

\* the loop with the row lengths of a chunk row added up
RECURSIVE chunk_row_lengths_sum(_, _, _, _, _)
chunk_row_lengths_sum(i, m, cs, row_lengths, chunk_row_lengths) ==
  IF i >= m THEN chunk_row_lengths
  ELSE chunk_row_lengths_sum(i + 1, m, cs, row_lengths,
         [chunk_row_lengths EXCEPT
            ![i \div cs] = chunk_row_lengths[i \div cs] + row_lengths[i]])

\* the loop of reinit over the logical rows i, ..., m-1
RECURSIVE chunk_row_lengths_loop(_, _, _, _, _)
chunk_row_lengths_loop(i, m, cs, row_lengths, chunk_row_lengths) ==
  IF i >= m THEN chunk_row_lengths
  ELSE chunk_row_lengths_loop(i + 1, m, cs, row_lengths,
         [chunk_row_lengths EXCEPT
            ![i \div cs] = std_max(chunk_row_lengths[i \div cs],
                                   row_lengths[i])])

\* the number of chunks with the rounding up of the comment in reinit
n_chunks_ceil(d, cs) == UDiv(d + cs - 1, cs)

\* the number of chunks reinit computes for a dimension of d: a set, since
\* the division is undefined for chunk_size = 0
n_chunks_of(d, cs) == UDiv(d + cs, cs)

\* the assignments rows = m; cols = n; this->chunk_size = chunk_size
reinit_fields(p, m, n, cs) ==
  [p EXCEPT !.rows = m, !.cols = n, !.chunk_size = cs]

\* reinit that leaves the coarse structure alone when it has the chunk
\* counts asked for already
reinit_coarse_lazy(q, m, cs, row_lengths, m_chunks, n_chunks, optimize_diag) ==
  IF q.sparsity_pattern.rows = m_chunks /\ q.sparsity_pattern.cols = n_chunks
    THEN q
    ELSE [q EXCEPT !.sparsity_pattern =
            SP_reinit(m_chunks, n_chunks,
                      chunk_row_lengths_loop(0, m, cs, row_lengths,
                                             [R \in 0..(m_chunks - 1) |-> 0]),
                      optimize_diag)]

\* chunk_row_lengths is built and passed down to the coarse structure
reinit_coarse(q, m, cs, row_lengths, m_chunks, n_chunks, optimize_diag) ==
  [q EXCEPT !.sparsity_pattern =
     SP_reinit(m_chunks, n_chunks,
               chunk_row_lengths_loop(0, m, cs, row_lengths,
                                      [R \in 0..(m_chunks - 1) |-> 0]),
               optimize_diag)]

\* The object at the moment the division by chunk_size = 0 traps.  The
\* division does not depend on the three assignments before it, and a
\* program with undefined behaviour is bound to no order: each of rows,
\* cols and chunk_size has been written by then or still holds its old
\* value, as the build has it.  written are the members written by then.
reinit_trapped(p, m, n, cs) ==
  {[obj |-> [p EXCEPT !.rows = IF "rows" \in w THEN m ELSE @,
                      !.cols = IF "cols" \in w THEN n ELSE @,
                      !.chunk_size = IF "chunk_size" \in w THEN cs ELSE @],
    written |-> w] :
     w \in SUBSET Members}

\* what reinit does once the Assert on the length of row_lengths has passed
reinit_body(p, m, n, row_lengths, cs, optimize_diag) ==
  LET q == reinit_fields(p, m, n, cs)
  IN UNION
       { IF m_chunks = Trap \/ n_chunks = Trap
           THEN {[obj |-> t.obj, err |-> "none", halted |-> TRUE,
                  written |-> t.written] :
                   t \in reinit_trapped(p, m, n, cs)}
           ELSE {[obj |-> reinit_coarse(q, m, cs, row_lengths, m_chunks,
                                        n_chunks, optimize_diag),
                  err |-> "none", halted |-> FALSE, written |-> Members]}
         : m_chunks \in n_chunks_of(m, cs), n_chunks \in n_chunks_of(n, cs) }

\* reinit with the Assert on the length placed after the assignments
reinit_rejected_late(p, m, n, cs) ==
  {[obj |-> reinit_fields(p, m, n, cs), err |-> "ExcInvalidNumber",
    halted |-> FALSE, written |-> Members]}

\* what reinit does when the Assert on the length of row_lengths fails
reinit_rejected(p, m, n, cs) ==
  {[obj |-> p, err |-> "ExcInvalidNumber", halted |-> FALSE,
    written |-> {}]}

\* reinit(m, n, row_lengths, chunk_size, optimize_diag) on object p: the set
\* of possible results [obj, err, halted, written], written being the
\* members among rows, cols, chunk_size the call has assigned
reinit(p, m, n, row_lengths, cs, optimize_diag) ==
  IF size(row_lengths) # m
    THEN reinit_rejected(p, m, n, cs)
    ELSE reinit_body(p, m, n, row_lengths, cs, optimize_diag)

\* reinit(m, n, max_per_row, chunk_size, optimize_diag)
reinit_uniform(p, m, n, max_per_row, cs, optimize_diag) ==
  reinit(p, m, n, [i \in 0..(m - 1) |-> max_per_row], cs, optimize_diag)

\* ------------------------------------------------------------------------
\* Queries
\* ------------------------------------------------------------------------

\* the exception exists(i, j) raises, "none" if it returns
exists_err(i, j) ==
  IF i >= rows \/ j >= cols THEN "ExcIndexRange" ELSE "none"

\* exists with the chunk row and the chunk column exchanged
exists_transposed(i, j) ==
  SP_exists(sparsity_pattern, j \div chunk_size, i \div chunk_size)

\* the value exists(i, j) returns
exists(i, j) ==
  SP_exists(sparsity_pattern, i \div chunk_size, j \div chunk_size)

\* empty()
empty == SP_empty(sparsity_pattern)

\* bandwidth taken from the coarse structure without scaling
bandwidth_coarse ==
  std_min(SP_bandwidth(sparsity_pattern), std_max(rows, cols))

\* bandwidth without the chunk_size-1 added to the scaled coarse bandwidth
bandwidth_scaled ==
  std_min(SP_bandwidth(sparsity_pattern) * chunk_size, std_max(rows, cols))

\* bandwidth().  For chunk_size = 0 the term (chunk_size-1) wraps to 2^32-1,
\* which is above every max(n_rows(), n_cols()) of the model.
bandwidth ==
  LET t == SP_bandwidth(sparsity_pattern) * chunk_size + (chunk_size - 1)
  IN IF t < 0 THEN std_max(rows, cols) ELSE std_min(t, std_max(rows, cols))

\* ------------------------------------------------------------------------
\* add
\* ------------------------------------------------------------------------

\* add with the row check written as i<=rows
add_err_off_by_one(i, j) ==
  IF i > rows \/ j >= cols THEN "ExcInvalidIndex"
  ELSE SP_add_err(sparsity_pattern, i \div chunk_size, j \div chunk_size)

\* the exception add(i, j) raises, "none" if it succeeds
add_err(i, j) ==
  IF i >= rows \/ j >= cols THEN "ExcInvalidIndex"
  ELSE SP_add_err(sparsity_pattern, i \div chunk_size, j \div chunk_size)

\* add that empties the chunk row before it inserts the chunk
add_replace_row(i, j) ==
  IF i >= rows \/ j >= cols THEN sparsity_pattern
  ELSE SP_add([sparsity_pattern EXCEPT
                 !.entries = {e \in @ : e[1] # i \div chunk_size}],
              i \div chunk_size, j \div chunk_size)

\* add with the column passed down undivided
add_undivided(i, j) ==
  IF i >= rows \/ j >= cols THEN sparsity_pattern
  ELSE SP_add(sparsity_pattern, i \div chunk_size, j)

\* add written as a flip of the chunk's presence
add_flip(i, j) ==
  IF i >= rows \/ j >= cols THEN sparsity_pattern
  ELSE IF SP_exists(sparsity_pattern, i \div chunk_size, j \div chunk_size)
    THEN [sparsity_pattern EXCEPT
            !.entries = @ \ {<<i \div chunk_size, j \div chunk_size>>}]
    ELSE SP_add(sparsity_pattern, i \div chunk_size, j \div chunk_size)

\* the coarse structure after add(i, j)
add(i, j) ==
  IF i >= rows \/ j >= cols THEN sparsity_pattern
  ELSE SP_add(sparsity_pattern, i \div chunk_size, j \div chunk_size)

\* ------------------------------------------------------------------------
\* symmetrize
\* ------------------------------------------------------------------------

\* symmetrize with the squareness checked on the coarse structure
symmetrize_coarse_square(p) ==
  IF p.sparsity_pattern.rows # p.sparsity_pattern.cols
    THEN {[sp |-> p.sparsity_pattern, err |-> "ExcNotQuadratic"]}
    ELSE SP_symmetrize(p.sparsity_pattern)

\* symmetrize that replaces the coarse structure by its transpose
symmetrize_transposed(p) ==
  IF p.rows # p.cols
    THEN {[sp |-> p.sparsity_pattern, err |-> "ExcNotQuadratic"]}
    ELSE {[sp |-> [p.sparsity_pattern EXCEPT
                     !.entries = {<<e[2], e[1]>> : e \in @}],
           err |-> "none"]}

\* symmetrize (): the coarse structures the call can leave, each with the
\* exception raised
symmetrize(p) ==
  IF p.rows # p.cols
    THEN {[sp |-> p.sparsity_pattern, err |-> "ExcNotQuadratic"]}
    ELSE SP_symmetrize(p.sparsity_pattern)

\* ------------------------------------------------------------------------
\* operator=
\* ------------------------------------------------------------------------

\* operator= that assigns every member
assign_all_members(p, s) ==
  IF s.rows # 0 \/ s.cols # 0
    THEN [obj |-> p, err |-> "ExcInvalidConstructorCall"]
    ELSE [obj |-> s, err |-> "none"]

\* operator= without the checks on the source
assign_unchecked(p, s) ==
  [obj |-> [p EXCEPT !.sparsity_pattern = s.sparsity_pattern],
   err |-> "none"]

\* operator= (s) on the object p: the object after the call and the
\* exception raised.  The member sparsity_pattern is assigned; rows, cols
\* and chunk_size are not.
assign(p, s) ==
  IF s.rows # 0 \/ s.cols # 0
    THEN [obj |-> p, err |-> "ExcInvalidConstructorCall"]
    ELSE [obj |-> [p EXCEPT !.sparsity_pattern = s.sparsity_pattern],
          err |-> "none"]

\* ------------------------------------------------------------------------
\* copy_from
\* ------------------------------------------------------------------------

\* The argument of copy_from is a record src of its numbers of rows m and
\* columns n and the set nz of its entries.  The three kinds of argument
\* give access to it in their own ways.

\* the columns of the entries in a row
row_cols(src, row) == {c \in 0..(src.n - 1) : <<row, c>> \in src.nz}

\* CompressedSparsityPattern::row_length(row), and the same of
\* CompressedSetSparsityPattern
row_length(src, row) == Cardinality(row_cols(src, row))

\* CompressedSparsityPattern::column_number(row, j): the columns of a row in
\* ascending order
column_number(src, row, j) ==
  CHOOSE c \in row_cols(src, row) :
    Cardinality({d \in row_cols(src, row) : d < c}) = j

\* FullMatrix::operator()(row, col)
matrix(src, row, col) == IF <<row, col>> \in src.nz THEN 1 ELSE 0

\* The orders in which row_begin(row) .. row_end(row) of a
\* CompressedSetSparsityPattern can visit the columns of each row: every
\* column of the row once.
Perms(S) ==
  {q \in [1..Cardinality(S) -> S] :
     \A a \in DOMAIN q, b \in DOMAIN q : a # b => q[a] # q[b]}

RowOrders(src) ==
  {o \in [0..(src.m - 1) ->
            UNION {Perms(row_cols(src, r)) : r \in 0..(src.m - 1)}] :
     \A r \in 0..(src.m - 1) : o[r] \in Perms(row_cols(src, r))}

\* the exception add(i, j) raises on the object p, and the object after it
add_err_in(p, i, j) ==
  IF i >= p.rows \/ j >= p.cols THEN "ExcInvalidIndex"
  ELSE SP_add_err(p.sparsity_pattern, i \div p.chunk_size, j \div p.chunk_size)

add_in(p, i, j) ==
  IF i >= p.rows \/ j >= p.cols THEN p
  ELSE [p EXCEPT !.sparsity_pattern =
                   SP_add(@, i \div p.chunk_size, j \div p.chunk_size)]

\* exists(i, j) on the object p
exists_in(p, i, j) ==
  SP_exists(p.sparsity_pattern, i \div p.chunk_size, j \div p.chunk_size)

\* one call a copy_from makes on its own object: reinit (i, j, lengths,
\* ...), add (i, j) or compress ()
Made(f, i, j, lengths) == [f |-> f, i |-> i, j |-> j, lengths |-> lengths]

\* the calls add (row, col) of a copy_from in the order of the sequence
\* pairs, up to the first that raises; calls are the calls made so far
RECURSIVE add_all(_, _, _)
add_all(p, pairs, calls) ==
  IF pairs = <<>> THEN [obj |-> p, err |-> "none", calls |-> calls]
  ELSE LET i == Head(pairs)[1]
           j == Head(pairs)[2]
           made == Append(calls, Made("add", i, j, <<>>))
       IN IF add_err_in(p, i, j) # "none"
            THEN [obj |-> p, err |-> add_err_in(p, i, j), calls |-> made]
            ELSE add_all(add_in(p, i, j), Tail(pairs), made)

\* the part the three copy_from have in common: reinit with the numbers of
\* entries per row, add for each entry, compress
fill(p, m, n, entries_per_row, pairs, cs, optimize_diag) ==
  LET first == <<Made("reinit", m, n, entries_per_row)>>
  IN {IF r.halted \/ r.err # "none"
        THEN [obj |-> r.obj, err |-> r.err, halted |-> r.halted,
              written |-> r.written, calls |-> first]
      ELSE LET a == add_all(r.obj, pairs, first)
           IN IF a.err # "none"
                THEN [obj |-> a.obj, err |-> a.err, halted |-> FALSE,
                      written |-> r.written, calls |-> a.calls]
                ELSE [obj |-> [a.obj EXCEPT
                                 !.sparsity_pattern = SP_compress(@)],
                      err |-> "none", halted |-> FALSE,
                      written |-> r.written,
                      calls |-> Append(a.calls,
                                       Made("compress", 0, 0, <<>>))] :
        r \in reinit(p, m, n, entries_per_row, cs, optimize_diag)}

\* the entries visited by the loops of copy_from (CompressedSparsityPattern)
\* from row `row` on
RECURSIVE csp_pairs(_, _)
csp_pairs(src, row) ==
  IF row >= src.m THEN <<>>
  ELSE [j \in 1..row_length(src, row) |->
          <<row, column_number(src, row, j - 1)>>]
       \o csp_pairs(src, row + 1)

\* copy_from (const CompressedSparsityPattern &csp, chunk_size,
\* optimize_diag)
copy_from_csp(p, src, cs, optimize_diag) ==
  fill(p, src.m, src.n, [row \in 0..(src.m - 1) |-> row_length(src, row)],
       csp_pairs(src, 0), cs, optimize_diag)

\* the entries visited by the loops of copy_from
\* (CompressedSetSparsityPattern) from row `row` on, the iterators visiting
\* the columns of each row in the order o
RECURSIVE cset_pairs(_, _, _)
cset_pairs(src, o, row) ==
  IF row >= src.m THEN <<>>
  ELSE [j \in 1..Len(o[row]) |-> <<row, o[row][j]>>]
       \o cset_pairs(src, o, row + 1)

\* copy_from (const CompressedSetSparsityPattern &csp, chunk_size,
\* optimize_diag)
copy_from_cset(p, src, o, cs, optimize_diag) ==
  fill(p, src.m, src.n, [row \in 0..(src.m - 1) |-> Len(o[row])],
       cset_pairs(src, o, 0), cs, optimize_diag)

\* the entries visited by the loops of copy_from (FullMatrix) from
\* (row, col) on
RECURSIVE full_pairs(_, _, _)
full_pairs(src, row, col) ==
  IF row >= src.m THEN <<>>
  ELSE IF col >= src.n THEN full_pairs(src, row + 1, 0)
  ELSE (IF matrix(src, row, col) # 0 THEN << <<row, col>> >> ELSE <<>>)
       \o full_pairs(src, row, col + 1)

\* the count of the first loop of copy_from (FullMatrix)
full_entries_per_row(src) ==
  [row \in 0..(src.m - 1) |->
     Cardinality({col \in 0..(src.n - 1) : matrix(src, row, col) # 0})]

\* copy_from (const FullMatrix<number> &matrix, chunk_size, optimize_diag)
copy_from_full(p, src, cs, optimize_diag) ==
  fill(p, src.m, src.n, full_entries_per_row(src), full_pairs(src, 0, 0),
       cs, optimize_diag)

\* ------------------------------------------------------------------------
\* block_write and block_read
\* ------------------------------------------------------------------------

\* The text of a file is a sequence of items: a character, or the payload
\* of the coarse structure, which is opaque here and kept as one item.
Item(c) == [c |-> c, body |-> SP_default]

\* SparsityPattern::block_write(out): the payload holds the structure
SP_block_write(sp) == <<[c |-> "payload", body |-> sp]>>

DigitChars == <<"0", "1", "2", "3", "4", "5", "6", "7", "8", "9">>

\* out << k for an unsigned int: its decimal digits
RECURSIVE decimal(_)
decimal(k) ==
  IF 0 <= k /\ k < 10 THEN <<Item(DigitChars[k + 1])>>
  ELSE decimal(UDiv10(k)) \o <<Item(DigitChars[UMod10(k) + 1])>>

\* the text with a single space between the numbers and none after them
block_write_compact(p) ==
  <<Item("[")>> \o decimal(p.rows) \o <<Item(" ")>> \o decimal(p.cols)
  \o <<Item("]"), Item("[")>>
  \o SP_block_write(p.sparsity_pattern)
  \o <<Item("]")>>

\* block_write (out): the text written for the object p
block_write(p) ==
  <<Item("[")>>
  \o decimal(p.rows) \o <<Item(" ")>>
  \o decimal(p.cols) \o <<Item(" ")>>
  \o <<Item("]"), Item("[")>>
  \o SP_block_write(p.sparsity_pattern)
  \o <<Item("]")>>

\* An input stream being read: its text, the position of the next item and
\* whether it is still good.

\* the value of a char that was never assigned
Indeterminate == "indeterminate"

\* c == ch.  Reading a char that was never assigned is undefined behaviour:
\* the comparison can turn out either way.
CharEquals(c, ch) == IF c = Indeterminate THEN BOOLEAN ELSE {c = ch}

\* the position of the first item from pos on that is not white space
RECURSIVE skip_ws(_, _)
skip_ws(text, pos) ==
  IF pos <= Len(text) /\ text[pos].c = " "
    THEN skip_ws(text, pos + 1)
    ELSE pos

\* in >> c for a char c: skips white space and takes one character; on a
\* stream that is not good or has ended the stream fails and c keeps its
\* value
get_char(st, c) ==
  IF ~st.ok THEN [st |-> st, c |-> c]
  ELSE LET q == skip_ws(st.text, st.pos)
       IN IF q > Len(st.text)
            THEN [st |-> [st EXCEPT !.pos = q, !.ok = FALSE], c |-> c]
            ELSE [st |-> [st EXCEPT !.pos = q + 1], c |-> st.text[q].c]

IsDigit(c) == \E d \in DOMAIN DigitChars : DigitChars[d] = c

DigitValue(c) == (CHOOSE d \in DOMAIN DigitChars : DigitChars[d] = c) - 1

\* the position after the digits that start at pos
RECURSIVE digits_end(_, _)
digits_end(text, pos) ==
  IF pos <= Len(text) /\ IsDigit(text[pos].c)
    THEN digits_end(text, pos + 1)
    ELSE pos

\* the number written by the digits at pos .. to-1, acc being the value of
\* the digits before them and over telling that they were already more
\* than an unsigned int holds
RECURSIVE digits_value(_, _, _, _, _)
digits_value(text, pos, to, acc, over) ==
  IF pos >= to THEN [v |-> acc, over |-> over]
  ELSE LET d == DigitValue(text[pos].c)
       IN IF over \/ acc < 0 \/ acc > UMaxDiv10
             \/ (acc = UMaxDiv10 /\ d > UMaxMod10)
            THEN digits_value(text, pos + 1, to, acc, TRUE)
          ELSE IF acc < IMaxDiv10 \/ (acc = IMaxDiv10 /\ d <= IMaxMod10)
            THEN digits_value(text, pos + 1, to, 10 * acc + d, FALSE)
          ELSE digits_value(text, pos + 1, to,
                            10 * (acc - UMaxDiv10 + 1)
                              + (d - UMaxMod10 - 11),
                            FALSE)

\* in >> v for an unsigned int v: skips white space and takes a sign, if
\* there is one, and the digits that follow; a number with the sign '-' is
\* taken away from 2^32.  On a stream that is not good or has ended v
\* keeps its value.  Where no digit follows, the stream fails and v keeps
\* its value or becomes 0, as the standard library in use has it; where
\* the digits are more than an unsigned int holds, the stream fails and v
\* keeps its value or becomes the largest unsigned int.
get_uint(st, v) ==
  IF ~st.ok THEN {[st |-> st, v |-> v]}
  ELSE LET q == skip_ws(st.text, st.pos)
           signed == q <= Len(st.text) /\ st.text[q].c \in {"+", "-"}
           b == IF signed THEN q + 1 ELSE q
           e == digits_end(st.text, b)
           n == digits_value(st.text, b, e, 0, FALSE)
       IN IF q > Len(st.text)
            THEN {[st |-> [st EXCEPT !.pos = q, !.ok = FALSE], v |-> v]}
          ELSE IF e = b
            THEN {[st |-> [st EXCEPT !.pos = b, !.ok = FALSE], v |-> w] :
                    w \in {v, 0}}
          ELSE IF n.over
            THEN {[st |-> [st EXCEPT !.pos = e, !.ok = FALSE], v |-> w] :
                    w \in {v, UMax}}
          ELSE {[st |-> [st EXCEPT !.pos = e],
                 v |-> IF st.text[q].c = "-" THEN UNeg(n.v) ELSE n.v]}

\* SparsityPattern::block_read(in): takes the payload.  It fails with the
\* I/O condition on a stream that is not good and on anything that is not a
\* payload, and then leaves the structure as it was.
SP_block_read(sp, st) ==
  IF st.ok /\ st.pos <= Len(st.text) /\ st.text[st.pos].c = "payload"
    THEN [sp |-> st.text[st.pos].body, st |-> [st EXCEPT !.pos = @ + 1],
          err |-> "none"]
    ELSE [sp |-> sp, st |-> [st EXCEPT !.ok = FALSE], err |-> "ExcIO"]

\* block_read from the last in >> c on, without its check
read_end_unchecked(p, st, c) == {[obj |-> p, err |-> "none"]}

\* block_read from the last in >> c on
read_end(p, st, c) ==
  LET g == get_char(st, c)
  IN {[obj |-> p, err |-> IF b THEN "none" ELSE "ExcIO"] :
        b \in CharEquals(g.c, "]")}

\* block_read from sparsity_pattern.block_read (in) on
read_body(p, st, c) ==
  LET r == SP_block_read(p.sparsity_pattern, st)
  IN IF r.err # "none"
       THEN {[obj |-> p, err |-> r.err]}
       ELSE read_end([p EXCEPT !.sparsity_pattern = r.sp], r.st, c)

\* block_read from the in >> c for the second '[' on
read_open(p, st, c) ==
  LET g == get_char(st, c)
  IN UNION {IF b THEN read_body(p, g.st, g.c)
            ELSE {[obj |-> p, err |-> "ExcIO"]} :
              b \in CharEquals(g.c, "[")}

\* block_read from the in >> c for the first ']' on
read_close(p, st, c) ==
  LET g == get_char(st, c)
  IN UNION {IF b THEN read_open(p, g.st, g.c)
            ELSE {[obj |-> p, err |-> "ExcIO"]} :
              b \in CharEquals(g.c, "]")}

\* block_read from in >> rows >> cols on
read_dims(p, st, c) ==
  UNION {UNION {read_close([p EXCEPT !.rows = r.v, !.cols = q.v], q.st, c) :
                  q \in get_uint(r.st, p.cols)} :
           r \in get_uint(st, p.rows)}

\* block_read (in) on the object p, in holding text and being good or not
\* at the call: the objects the call can leave, each with the exception
\* raised
block_read(p, text, good) ==
  IF ~good THEN {[obj |-> p, err |-> "ExcIO"]}
  ELSE LET g == get_char([text |-> text, pos |-> 1, ok |-> TRUE],
                         Indeterminate)
       IN UNION {IF b THEN read_dims(p, g.st, g.c)
                 ELSE {[obj |-> p, err |-> "ExcIO"]} :
                   b \in CharEquals(g.c, "[")}

\* ------------------------------------------------------------------------
\* Actions
\* ------------------------------------------------------------------------

\* the state takes one of the results of a reinit on an object of which
\* the members u were unwritten at the call
BecomesFrom(r, u) ==
  /\ rows' = r.obj.rows
  /\ cols' = r.obj.cols
  /\ chunk_size' = r.obj.chunk_size
  /\ sparsity_pattern' = r.obj.sparsity_pattern
  /\ err' = r.err
  /\ halted' = r.halted
  /\ unwritten' = u \ r.written

\* the state takes one of the results of a reinit on the current object
Becomes(r) == BecomesFrom(r, unwritten)

\* ChunkSparsityPattern(): reinit (0,0,0,0), with the default optimize_diag
\* of the declaration
DefaultResults ==
  UNION {reinit_uniform(Unconstructed, 0, 0, 0, 0, od) : od \in BOOLEAN}

DefaultConstruct ==
  /\ ~halted
  /\ \E r \in DefaultResults : BecomesFrom(r, Members)
  /\ last' = Call("ChunkSparsityPattern", <<0, 0, <<>>, 0, FALSE, 0, 0>>)
  /\ UNCHANGED <<source, stream>>

\* ChunkSparsityPattern(const ChunkSparsityPattern &s), s being the current
\* object; the new object becomes the current one.  Where an Assert fails
\* no new object comes to exist and the current one stays.  chunk_size has
\* an initializer; rows and cols have none.
CopyResults(s) ==
  IF s.rows # 0 \/ s.cols # 0
    THEN {[obj |-> s, err |-> "ExcInvalidConstructorCall", halted |-> FALSE,
           written |-> Members]}
    ELSE reinit_uniform([Unconstructed EXCEPT
                           !.chunk_size = s.chunk_size,
                           !.sparsity_pattern = s.sparsity_pattern],
                        0, 0, 0, 0, FALSE)

CopyConstruct ==
  /\ ~halted
  /\ \E r \in CopyResults(This) : BecomesFrom(r, {"rows", "cols"})
  /\ last' = Call("ChunkSparsityPattern(s)", <<0, 0, <<>>, 0, FALSE, 0, 0>>)
  /\ UNCHANGED <<source, stream>>

\* The arguments of the constructors that size the pattern, which pass them
\* on to reinit: a chunk_size of at least 1 and a row_lengths array of m
\* entries, or one max_per_row for all rows.
CtorArgs ==
  UNION {{<<m, n, row_lengths, cs, od>> :
            n \in 0..MaxDim, row_lengths \in Vec(m, 0..MaxLen),
            cs \in 1..MaxChunk, od \in BOOLEAN} : m \in 0..MaxDim}

CtorUniformArgs ==
  {<<m, n, max_per_row, cs, od>> :
     m \in 0..MaxDim, n \in 0..MaxDim, max_per_row \in 0..MaxLen,
     cs \in 1..MaxChunk, od \in BOOLEAN}

\* The arguments with which a pattern in use is initialized again.  What
\* reinit makes of its arguments does not depend on the object it is called
\* on, and every argument occurs at construction; here are the square
\* patterns with optimize_diag and row lengths that do not decrease ...
ReinitArgs ==
  {a \in CtorArgs :
     /\ a[2] = a[1]
     /\ a[5]
     /\ \A i \in 1..(a[1] - 1) : a[3][i - 1] <= a[3][i]}

\* ... the arrays that are one entry short or one entry long, on which the
\* call fails whatever the other arguments are ...
BadReinitArgs ==
  {a \in {<<m, MaxDim, [i \in 0..(k - 1) |-> 0], 1, FALSE>> :
              m \in 0..MaxDim, k \in 0..MaxDim} :
     size(a[3]) \in {a[1] - 1, a[1] + 1}}

\* ... and, for the overload with max_per_row, the patterns of m rows and
\* MaxDim - m columns without optimize_diag.
ReinitUniformArgs ==
  {a \in CtorUniformArgs : a[2] = MaxDim - a[1] /\ ~a[5]}

ReinitCall(a) == Call("reinit", <<a[1], a[2], a[3], a[4], a[5], 0, 0>>)

ReinitUniformCall(a) ==
  Call("reinit_uniform", <<a[1], a[2], <<a[3]>>, a[4], a[5], 0, 0>>)

Reinit ==
  /\ ~halted
  /\ \E a \in ReinitArgs \cup BadReinitArgs :
       /\ \E r \in reinit(This, a[1], a[2], a[3], a[4], a[5]) : Becomes(r)
       /\ last' = ReinitCall(a)
  /\ UNCHANGED <<source, stream>>

ReinitUniform ==
  /\ ~halted
  /\ \E a \in ReinitUniformArgs :
       /\ \E r \in reinit_uniform(This, a[1], a[2], a[3], a[4], a[5]) :
            Becomes(r)
       /\ last' = ReinitUniformCall(a)
  /\ UNCHANGED <<source, stream>>

\* add (i, j)
Add ==
  /\ ~halted
  /\ \E i \in 0..MaxDim, j \in 0..MaxDim :
       /\ sparsity_pattern' = add(i, j)
       /\ err' = add_err(i, j)
       /\ last' = AddCall(i, j)
  /\ UNCHANGED <<rows, cols, chunk_size, halted, unwritten, source, stream>>

\* compress ()
Compress ==
  /\ ~halted
  /\ sparsity_pattern' = SP_compress(sparsity_pattern)
  /\ err' = "none"
  /\ last' = Call("compress", <<0, 0, <<>>, 0, FALSE, 0, 0>>)
  /\ UNCHANGED <<rows, cols, chunk_size, halted, unwritten, source, stream>>

\* symmetrize (); the record of the call keeps, as i, the number of chunks
\* the call inserted
Symmetrize ==
  /\ ~halted
  /\ \E r \in symmetrize(This) :
       /\ sparsity_pattern' = r.sp
       /\ err' = r.err
       /\ last' = Call("symmetrize",
                       <<0, 0, <<>>, 0, FALSE,
                         Cardinality(r.sp.entries \ sparsity_pattern.entries),
                         0>>)
  /\ UNCHANGED <<rows, cols, chunk_size, halted, unwritten, source, stream>>

\* The patterns assigned from: those a default constructor leaves, and the
\* patterns of at most one row and one column without room for an entry.
AssignSources ==
  {r.obj : r \in {q \in DefaultResults : ~q.halted}}
  \cup {r.obj : r \in UNION {reinit_uniform(Unconstructed, m, n, 0, cs, FALSE) :
                              m \in 0..1, n \in 0..1, cs \in 1..MaxChunk}}

\* operator= (s); the record of the call keeps the dimensions of s as m and n
Assign ==
  /\ ~halted
  /\ \E s \in AssignSources :
       /\ sparsity_pattern' = assign(This, s).obj.sparsity_pattern
       /\ rows' = assign(This, s).obj.rows
       /\ cols' = assign(This, s).obj.cols
       /\ chunk_size' = assign(This, s).obj.chunk_size
       /\ err' = assign(This, s).err
       /\ last' = Call("operator=", <<s.rows, s.cols, <<>>, 0, FALSE, 0, 0>>)
  /\ UNCHANGED <<halted, unwritten, source, stream>>

\* the record of a copy_from keeps the dimensions of the argument and the
\* numbers of entries of its rows, and the calls the copy_from made on its
\* own object
CopyFromCall(op, cs, od, calls) ==
  [c \in {"calls"} |-> calls]
    @@ Call(op, <<source.m, source.n,
                  [row \in 0..(source.m - 1) |-> row_length(source, row)],
                  cs, od, 0, 0>>)

CopyFromCSP ==
  /\ ~halted
  /\ \E cs \in 1..MaxChunk, od \in BOOLEAN :
       \E r \in copy_from_csp(This, source, cs, od) :
         /\ Becomes(r)
         /\ last' = CopyFromCall("copy_from_csp", cs, od, r.calls)
  /\ UNCHANGED <<source, stream>>

CopyFromCSet ==
  /\ ~halted
  /\ \E cs \in 1..MaxChunk, od \in BOOLEAN, o \in RowOrders(source) :
       \E r \in copy_from_cset(This, source, o, cs, od) :
         /\ Becomes(r)
         /\ last' = CopyFromCall("copy_from_cset", cs, od, r.calls)
  /\ UNCHANGED <<source, stream>>

CopyFromFull ==
  /\ ~halted
  /\ \E cs \in 1..MaxChunk, od \in BOOLEAN :
       \E r \in copy_from_full(This, source, cs, od) :
         /\ Becomes(r)
         /\ last' = CopyFromCall("copy_from_full", cs, od, r.calls)
  /\ UNCHANGED <<source, stream>>

\* block_write (out) into a new file.  The stream is bad at the call and
\* the file stays as it is (the first AssertThrow), or it takes the first
\* k items of the text and fails then, which leaves those k items in the
\* file and raises at the last AssertThrow, or it takes the whole text.
BlockWrite ==
  /\ ~halted
  /\ \/ /\ stream' = stream
        /\ err' = "ExcIO"
     \/ \E k \in 0..Len(block_write(This)) :
          /\ stream' = [tokens |-> SubSeq(block_write(This), 1, k),
                        writer |-> This]
          /\ err' = IF k = Len(block_write(This)) THEN "none" ELSE "ExcIO"
  /\ last' = Call("block_write", <<0, 0, <<>>, 0, FALSE, 0, 0>>)
  /\ UNCHANGED <<rows, cols, chunk_size, sparsity_pattern, halted, unwritten,
                 source>>

\* block_read (in) of the text `text`, the stream being good at the call or
\* not; the record of the call keeps both
ReadCall(text, good) ==
  /\ \E r \in block_read(This, text, good) :
       /\ rows' = r.obj.rows
       /\ cols' = r.obj.cols
       /\ chunk_size' = r.obj.chunk_size
       /\ sparsity_pattern' = r.obj.sparsity_pattern
       /\ err' = r.err
  /\ last' = [op |-> "block_read", text |-> text, good |-> good]
  /\ UNCHANGED <<halted, unwritten, source, stream>>

\* block_read (in) of the file as block_write left it, whole or not
BlockRead ==
  /\ ~halted
  /\ \E good \in BOOLEAN : ReadCall(stream.tokens, good)

\* The texts a file can have become: the file as it is, the file cut short,
\* or the file with one of its items replaced by another character, a
\* letter or a sign
Damaged(text) ==
  {SubSeq(text, 1, k) : k \in 0..Len(text)}
  \cup {[text EXCEPT ![k] = Item(ch)] :
          k \in 1..Len(text), ch \in {"x", "+", "-"}}

\* block_read (in) of a file that has been damaged since it was written
BlockReadDamaged ==
  /\ ~halted
  /\ \E good \in BOOLEAN, text \in Damaged(stream.tokens) :
       ReadCall(text, good)

\* the caller holds no matrix to copy from
NoSource == [m |-> 0, n |-> 0, nz |-> {}]

\* no file has been written: an empty file.  Besides its tokens the record
\* keeps the object that wrote them, which is not part of the file.
NoStream == [tokens |-> <<>>, writer |-> Unconstructed]

\* the results of the constructors, each with the call that produced it
Constructed ==
  {[r |-> r, last |-> Call("ChunkSparsityPattern", <<0, 0, <<>>, 0, FALSE, 0, 0>>)] :
     r \in DefaultResults}
  \cup UNION {{[r |-> r, last |-> ReinitCall(a)] :
                 r \in reinit(Unconstructed, a[1], a[2], a[3], a[4], a[5])} :
              a \in CtorArgs}
  \cup UNION {{[r |-> r, last |-> ReinitUniformCall(a)] :
                 r \in reinit_uniform(Unconstructed, a[1], a[2], a[3], a[4], a[5])} :
              a \in CtorUniformArgs}

\* the state after any of the constructors: the default constructor, or one
\* that sizes the pattern by a call of reinit
Init ==
  \E c \in Constructed :
    /\ rows = c.r.obj.rows
    /\ cols = c.r.obj.cols
    /\ chunk_size = c.r.obj.chunk_size
    /\ sparsity_pattern = c.r.obj.sparsity_pattern
    /\ err = c.r.err
    /\ halted = c.r.halted
    /\ unwritten = Members \ c.r.written
    /\ last = c.last
    /\ source = NoSource
    /\ stream = NoStream

Next ==
  \/ DefaultConstruct
  \/ CopyConstruct
  \/ Reinit
  \/ ReinitUniform
  \/ Add
  \/ Compress
  \/ Symmetrize
  \/ Assign

Spec == Init /\ [][Next]_vars

\* The matrices and patterns a caller hands to copy_from
Sources ==
  UNION {{[m |-> m, n |-> n, nz |-> Z] :
            Z \in {Y \in SUBSET ((0..(m - 1)) \X (0..(n - 1))) :
                     \A r \in 0..(m - 1) :
                       Cardinality({e \in Y : e[1] = r}) <= MaxSrcLen}} :
         m \in 0..MaxSrcRows, n \in 0..MaxSrcCols}

\* a default-constructed ChunkSparsityPattern
InitObject ==
  /\ \E r \in DefaultResults :
       /\ rows = r.obj.rows
       /\ cols = r.obj.cols
       /\ chunk_size = r.obj.chunk_size
       /\ sparsity_pattern = r.obj.sparsity_pattern
       /\ err = r.err
       /\ halted = r.halted
       /\ unwritten = Members \ r.written
  /\ last = Call("ChunkSparsityPattern", <<0, 0, <<>>, 0, FALSE, 0, 0>>)

\* A caller holds a matrix or pattern and a default-constructed
\* ChunkSparsityPattern ...
InitCopy ==
  /\ InitObject
  /\ source \in Sources
  /\ stream = NoStream

\* ... and copies it with any of the three copy_from, any number of times
NextCopy ==
  \/ CopyFromCSP
  \/ CopyFromCSet
  \/ CopyFromFull

SpecCopy == InitCopy /\ [][NextCopy]_vars

\* A caller holds a small square dense matrix and a default-constructed
\* ChunkSparsityPattern ...
InitIO ==
  /\ InitCopy
  /\ source.m = source.n
  /\ source.n <= MaxChunk
  /\ \A r \in 0..(source.m - 1) : row_length(source, r) <= MaxLen

\* ... copies the matrix with some chunk_size, writes the pattern to a file
\* and reads the file, in any order and any number of times
NextIO ==
  \/ CopyFromFull
  \/ BlockWrite
  \/ BlockRead

SpecIO == InitIO /\ [][NextIO]_vars

\* A caller holds a default-constructed pattern, a matrix, and a file that
\* a pattern copied from that matrix wrote in full ...
InitRead ==
  /\ InitObject
  /\ source \in Sources
  /\ source.m = source.n
  /\ source.n <= MaxChunk
  /\ \A r \in 0..(source.m - 1) : row_length(source, r) <= MaxLen
  /\ \E cs \in 1..MaxChunk, od \in BOOLEAN :
       \E w \in copy_from_full(Unconstructed, source, cs, od) :
         /\ w.err = "none"
         /\ stream = [tokens |-> block_write(w.obj), writer |-> w.obj]

\* ... and reads the file, damaged or not, into a pattern it may have
\* copied from the matrix before, any number of times
NextRead ==
  \/ CopyFromFull
  \/ BlockReadDamaged

SpecRead == InitRead /\ [][NextRead]_vars

\* ------------------------------------------------------------------------
\* Properties
\* ------------------------------------------------------------------------

\* the last call was a reinit of either overload and it returned
AfterReinit ==
  /\ last.op \in {"reinit", "reinit_uniform"}
  /\ err = "none"
  /\ ~halted

\* the last call was an add and it returned
AfterAdd == last.op = "add" /\ err = "none"

\* ceil(a / b) for b >= 1
Ceil(a, b) == (a + b - 1) \div b

\* the largest member of a set of naturals, 0 for the empty set
SetMax(S) == IF S = {} THEN 0 ELSE CHOOSE x \in S : \A y \in S : y <= x

\* the logical rows of chunk row R
RowsOfChunk(R, m, cs) == {i \in 0..(m - 1) : i \div cs = R}

\* what a caller can observe: exists on every logical pair, empty(),
\* bandwidth()
Observable ==
  [exists |-> [i \in 0..(rows - 1), j \in 0..(cols - 1) |-> exists(i, j)],
   empty |-> empty,
   bandwidth |-> bandwidth]

\* the coarse structure takes chunk (R, C): it has chunk row R and chunk
\* column C, it is not compressed, and the chunk is present or chunk row R
\* has spare capacity
CoarseAccepts(R, C) ==
  /\ R < sparsity_pattern.rows /\ C < sparsity_pattern.cols
  /\ ~sparsity_pattern.compressed
  /\ \/ <<R, C>> \in sparsity_pattern.entries
     \/ SP_row_length(sparsity_pattern, R) < sparsity_pattern.row_lengths[R]

\* C1: in every state in which the object can be called, exists(i, j) on a
\* logical pair inside the pattern passes its index check and is true
\* exactly when the coarse structure holds chunk (i div chunk_size,
\* j div chunk_size).
C1_ExistsIffChunkPresent ==
  ~halted =>
    \A i \in 0..(rows - 1), j \in 0..(cols - 1) :
      /\ exists_err(i, j) = "none"
      /\ exists(i, j) <=>
           (<<i \div chunk_size, j \div chunk_size>>
              \in sparsity_pattern.entries)

\* an add into a pattern of chunk_size 2 has returned; some logical pairs
\* exist and some do not
C1_Witness ==
  /\ AfterAdd
  /\ chunk_size = 2
  /\ \E i \in 0..(rows - 1), j \in 0..(cols - 1) : exists(i, j)
  /\ \E i \in 0..(rows - 1), j \in 0..(cols - 1) : ~exists(i, j)

\* C2: after an add(i1, j1) that returned, exists(i2, j2) is true for every
\* logical pair (i2, j2) of the same chunk row and chunk column.
C2_ChunkCoarsening ==
  AfterAdd =>
    \A i2 \in 0..(rows - 1), j2 \in 0..(cols - 1) :
      (/\ i2 \div chunk_size = last.i \div chunk_size
       /\ j2 \div chunk_size = last.j \div chunk_size)
      => exists_err(i2, j2) = "none" /\ exists(i2, j2)

\* add(i1, j1) has returned and another pair of its chunk is inside the
\* pattern
C2_Witness ==
  /\ AfterAdd
  /\ chunk_size = 2
  /\ \E i2 \in 0..(rows - 1), j2 \in 0..(cols - 1) :
       /\ i2 # last.i /\ j2 # last.j
       /\ i2 \div chunk_size = last.i \div chunk_size
       /\ j2 \div chunk_size = last.j \div chunk_size
       /\ exists(i2, j2)

\* C3 as claimed: add(i, j) fails exactly when i >= rows or j >= cols.
C3_AddFailsIffOutOfRange ==
  last.op = "add" =>
    ((err # "none") <=> (last.i >= rows \/ last.j >= cols))

\* C3 as amended: add(i, j) raises the invalid-index violation exactly when
\* i >= rows or j >= cols and then leaves the coarse structure alone; an
\* add inside the range succeeds, leaving the chunk present, exactly when
\* the coarse structure takes the chunk, and changes nothing otherwise.
C3_AddIndexCheck ==
  [][last'.op = "add" =>
       LET i == last'.i
           j == last'.j
           out == i >= rows \/ j >= cols
           R == i \div chunk_size
           C == j \div chunk_size
       IN /\ (err' = "ExcInvalidIndex") <=> out
          /\ out => sparsity_pattern' = sparsity_pattern
          /\ (~out /\ CoarseAccepts(R, C)) =>
               /\ err' = "none"
               /\ <<R, C>> \in sparsity_pattern'.entries
          /\ (~out /\ ~CoarseAccepts(R, C)) =>
               /\ err' \in {"ExcIndexRange", "ExcMatrixIsCompressed",
                            "ExcNotEnoughSpace"}
               /\ sparsity_pattern' = sparsity_pattern
          /\ UNCHANGED <<rows, cols, chunk_size>>]_vars

\* add(rows, 0) has failed on a pattern that holds a chunk
C3_Witness ==
  /\ last.op = "add"
  /\ err = "ExcInvalidIndex"
  /\ rows > 0 /\ cols > 0
  /\ last.i = rows /\ last.j = 0
  /\ sparsity_pattern.entries # {}

\* C4: a second add(i, j) right after the same add(i, j), with (i, j) inside
\* the pattern, changes no exists(i, j), nor empty(), nor bandwidth().
C4_AddIdempotent ==
  [][(last'.op = "add" /\ last'.rep) => Observable' = Observable]_vars

\* add(i, j) has been called twice in a row and the chunk is present
C4_Witness ==
  /\ AfterAdd
  /\ last.rep
  /\ exists(last.i, last.j)
  /\ ~empty

C6_ChunkCounts ==
  AfterReinit =>
    LET m == last.m
        n == last.n
        c == last.chunk_size
    IN /\ sparsity_pattern.rows = (m + c) \div c
       /\ sparsity_pattern.cols = (n + c) \div c
       /\ (m % c = 0) => sparsity_pattern.rows = Ceil(m, c) + 1
       /\ (n % c = 0) => sparsity_pattern.cols = Ceil(n, c) + 1

\* reinit has been called with m = 2 and chunk_size = 2
C6_Witness ==
  /\ AfterReinit
  /\ last.m = 2 /\ last.chunk_size = 2
  /\ sparsity_pattern.rows = 2

\* C7 as claimed: after reinit the coarse structure has ceil(rows/chunk_size)
\* chunk rows and ceil(cols/chunk_size) chunk columns.
C7_CeilChunkCounts ==
  AfterReinit =>
    /\ sparsity_pattern.rows = Ceil(rows, chunk_size)
    /\ sparsity_pattern.cols = Ceil(cols, chunk_size)

\* C8 as claimed: chunk_size >= 1 in every state of every pattern, and no
\* operation has divided by a zero chunk_size.
C8_ChunkSizeAtLeastOne == chunk_size >= 1 /\ ~halted

\* C9: reinit gives chunk row R the largest row_lengths[i] of its logical
\* rows as capacity, 0 if it has none; the overload with max_per_row gives
\* what the overload with an array of m copies of max_per_row gives.
C9_ChunkRowCapacity ==
  /\ (AfterReinit /\ last.op = "reinit") =>
       /\ DOMAIN sparsity_pattern.row_lengths = 0..(sparsity_pattern.rows - 1)
       /\ \A R \in 0..(sparsity_pattern.rows - 1) :
            sparsity_pattern.row_lengths[R] =
              SetMax({last.row_lengths[i] :
                        i \in RowsOfChunk(R, last.m, last.chunk_size)})
  /\ (AfterReinit /\ last.op = "reinit_uniform") =>
       /\ rows = last.m /\ cols = last.n /\ chunk_size = last.chunk_size
       /\ DOMAIN sparsity_pattern.row_lengths = 0..(sparsity_pattern.rows - 1)
       /\ \A R \in 0..(sparsity_pattern.rows - 1) :
            sparsity_pattern.row_lengths[R] =
              SetMax({last.row_lengths[1] :
                        i \in RowsOfChunk(R, last.m, last.chunk_size)})

\* reinit has been called with two nonzero row lengths in one chunk row
C9_Witness ==
  /\ AfterReinit
  /\ last.op = "reinit"
  /\ last.chunk_size = 2 /\ last.m = MaxDim
  /\ last.row_lengths[0] > 0 /\ last.row_lengths[1] > 0
  /\ last.row_lengths[2] = 0

\* C10: a reinit whose row_lengths array has not m entries raises the
\* dimension mismatch and changes none of rows, cols, chunk_size and the
\* coarse structure.
C10_LengthMismatch ==
  [][(last'.op = "reinit" /\ size(last'.row_lengths) # last'.m) =>
       /\ err' = "ExcInvalidNumber"
       /\ UNCHANGED <<rows, cols, chunk_size, sparsity_pattern, halted>>]_vars

\* a reinit with an array of the wrong length has failed on a pattern that
\* holds a chunk
C10_Witness ==
  /\ last.op = "reinit"
  /\ err = "ExcInvalidNumber"
  /\ size(last.row_lengths) # last.m
  /\ rows > 0 /\ rows # last.m
  /\ sparsity_pattern.entries # {}

\* C13: symmetrize() on a pattern with rows # cols raises the not-square
\* violation and leaves the coarse structure as it was; on a pattern with
\* rows = cols it does what the coarse structure's symmetrize does: the
\* coarse structure and the exception are those of the coarse call.
C13_SymmetrizeSquareOnly ==
  [][last'.op = "symmetrize" =>
       /\ rows # cols =>
            /\ err' = "ExcNotQuadratic"
            /\ sparsity_pattern' = sparsity_pattern
       /\ rows = cols =>
            \E r \in SP_symmetrize(sparsity_pattern) :
              sparsity_pattern' = r.sp /\ err' = r.err
       /\ UNCHANGED <<rows, cols, chunk_size>>]_vars

\* symmetrize() has failed on a pattern that is not square although its
\* coarse structure is square and holds a chunk off the diagonal
C13_Witness ==
  /\ last.op = "symmetrize"
  /\ err = "ExcNotQuadratic"
  /\ rows # cols
  /\ sparsity_pattern.rows = sparsity_pattern.cols
  /\ \E e \in sparsity_pattern.entries : e[1] # e[2]

\* C14: a symmetrize() on a pattern with rows = cols keeps every entry that
\* was present, and when the call returns, exists(i, j) implies exists(j, i)
\* for every logical pair of the pattern.
C14_SymmetricAfterSymmetrize ==
  [][(last'.op = "symmetrize" /\ rows = cols) =>
       /\ \A i \in 0..(rows - 1), j \in 0..(cols - 1) :
            exists(i, j) => exists(i, j)'
       /\ err' = "none" =>
            \A i \in 0..(rows - 1), j \in 0..(cols - 1) :
              exists(i, j)' => exists(j, i)']_vars

\* symmetrize() has returned after inserting a chunk: a chunk off the
\* diagonal and its transpose are present
C14_Witness ==
  /\ last.op = "symmetrize"
  /\ err = "none"
  /\ rows = cols
  /\ last.i > 0
  /\ \E i \in 0..(rows - 1), j \in 0..(cols - 1) :
       /\ i \div chunk_size # j \div chunk_size
       /\ exists(i, j) /\ exists(j, i)

\* C15: in every state bandwidth() is the coarse bandwidth times chunk_size
\* plus chunk_size - 1, evaluated on unsigned int, or max(rows, cols) if that
\* is smaller: a coarse bandwidth of 0 gives chunk_size - 1 and one of 1
\* gives 2 * chunk_size - 1 where max(rows, cols) is not below it.  With
\* chunk_size 0 the term chunk_size - 1 is the largest unsigned int, so the
\* result is max(rows, cols).
C15_BandwidthFormula ==
  LET b == SP_bandwidth(sparsity_pattern)
      d == IF rows < cols THEN cols ELSE rows
      t == b * chunk_size + (chunk_size - 1)
  IN  /\ chunk_size >= 1 =>
           /\ bandwidth = (IF t < d THEN t ELSE d)
           /\ (b = 0 /\ chunk_size - 1 <= d) => bandwidth = chunk_size - 1
           /\ (b = 1 /\ 2 * chunk_size - 1 <= d) =>
                bandwidth = 2 * chunk_size - 1
      /\ chunk_size = 0 => bandwidth = d

\* a pattern with chunk_size 2 whose coarse bandwidth is 1: bandwidth() is 3
C15_Witness ==
  /\ chunk_size = 2
  /\ SP_bandwidth(sparsity_pattern) = 1
  /\ bandwidth = 3

\* C19: a copy construction or a copy assignment from a source with
\* rows # 0 or cols # 0 raises the invalid-constructor-call violation and
\* changes nothing; one that returns had a source with rows = 0 and cols = 0.
C19_CopyNeedsUnsizedSource ==
  [][/\ last'.op = "ChunkSparsityPattern(s)" =>
          /\ (rows # 0 \/ cols # 0) =>
               /\ err' = "ExcInvalidConstructorCall"
               /\ UNCHANGED <<rows, cols, chunk_size, sparsity_pattern>>
          /\ (err' = "none" /\ ~halted') => (rows = 0 /\ cols = 0)
     /\ last'.op = "operator=" =>
          /\ (last'.m # 0 \/ last'.n # 0) =>
               /\ err' = "ExcInvalidConstructorCall"
               /\ UNCHANGED <<rows, cols, chunk_size, sparsity_pattern>>
          /\ err' = "none" => (last'.m = 0 /\ last'.n = 0)]_vars

\* a copy assignment from a source with no rows and one column has failed
\* on a pattern that holds a chunk
C19_Witness ==
  /\ last.op = "operator="
  /\ last.m = 0 /\ last.n = 1
  /\ err = "ExcInvalidConstructorCall"
  /\ sparsity_pattern.entries # {}

\* the last call was one of the three copy_from, and it ended
AfterCopyFrom ==
  /\ last.op \in {"copy_from_csp", "copy_from_cset", "copy_from_full"}
  /\ ~halted

\* two objects with the same rows, the same cols and the same exists(i, j)
\* on every logical pair
SameLogical(p, q) ==
  /\ p.rows = q.rows
  /\ p.cols = q.cols
  /\ \A i \in 0..(p.rows - 1), j \in 0..(p.cols - 1) :
       exists_in(p, i, j) = exists_in(q, i, j)

\* C11 as claimed: whichever copy_from built the pattern, the copy_from of
\* the dense matrix, of the compressed pattern with ordered rows and of the
\* compressed pattern with set-like rows, in any order of the columns of a
\* row, give from the same entries and chunk_size a pattern with the same
\* rows, cols and exists(i, j).  (reinit with the row counts, add of each
\* pair row by row and compress is the sequence of calls of the set-like
\* copy_from.)
C11_SourcesAgree ==
  AfterCopyFrom =>
    \A r \in copy_from_full(This, source, last.chunk_size, last.optimize_diag)
             \cup copy_from_csp(This, source, last.chunk_size,
                                last.optimize_diag)
             \cup UNION {copy_from_cset(This, source, o, last.chunk_size,
                                        last.optimize_diag) :
                         o \in RowOrders(source)} :
      SameLogical(r.obj, This)

\* C12 as claimed: after copy_from of a dense matrix the row counts handed
\* to reinit are the numbers of non-zero elements of the rows, and a chunk
\* is present exactly when the matrix has a non-zero element inside it.
C12_DenseCopy ==
  (last.op = "copy_from_full" /\ ~halted) =>
    /\ \A row \in 0..(source.m - 1) :
         last.row_lengths[row] =
           Cardinality({col \in 0..(source.n - 1) :
                          matrix(source, row, col) # 0})
    /\ \A R \in 0..(sparsity_pattern.rows - 1),
          C \in 0..(sparsity_pattern.cols - 1) :
         SP_exists(sparsity_pattern, R, C) <=>
           \E e \in source.nz :
             e[1] \div chunk_size = R /\ e[2] \div chunk_size = C

\* C20 as claimed: after a copy_from, which adds to every logical row as
\* many distinct columns as its row length says, the distinct chunk columns
\* to insert into a chunk row are no more than the capacity reinit gave it.
C20_CapacitySufficient ==
  AfterCopyFrom =>
    \A R \in 0..(sparsity_pattern.rows - 1) :
      Cardinality({e[2] \div chunk_size :
                     e \in {x \in source.nz : x[1] \div chunk_size = R}})
        <= sparsity_pattern.row_lengths[R]

\* C16 as claimed: block_read of the whole text that block_write wrote for
\* a compressed pattern P, on an object in any state, leaves an object with
\* the rows, the cols and the chunk_size of P and the same exists(i, j) on
\* every logical pair.
C16_RoundTrip ==
  (/\ last.op = "block_read"
   /\ err = "none"
   /\ stream.writer.sparsity_pattern.compressed
   /\ last.text = block_write(stream.writer)) =>
    /\ chunk_size = stream.writer.chunk_size
    /\ SameLogical(stream.writer, This)

\* the last call was a block_write and it returned
AfterBlockWrite == last.op = "block_write" /\ err = "none"

\* C17 as claimed: block_write emits '[', the decimal rows, one space, the
\* decimal cols, ']', '[', the payload of the coarse structure, ']' and
\* nothing else.
C17_WrittenFormat ==
  AfterBlockWrite =>
    stream.tokens =
      <<Item("[")>> \o decimal(rows) \o <<Item(" ")>> \o decimal(cols)
      \o <<Item("]")>> \o <<Item("[")>>
      \o SP_block_write(sparsity_pattern) \o <<Item("]")>>

\* C17 as amended: block_write emits '[', the decimal rows, one space, the
\* decimal cols, one space, ']', '[', the payload of the coarse structure,
\* ']' and nothing else.
C17_WrittenFormatSpaced ==
  AfterBlockWrite =>
    stream.tokens =
      <<Item("[")>> \o decimal(rows) \o <<Item(" ")>> \o decimal(cols)
      \o <<Item(" ")>> \o <<Item("]")>> \o <<Item("[")>>
      \o SP_block_write(sparsity_pattern) \o <<Item("]")>>

\* a pattern with rows, columns and a chunk has been written
C17_Witness ==
  /\ AfterBlockWrite
  /\ rows > 0 /\ cols > 0
  /\ sparsity_pattern.entries # {}
  /\ stream.writer = This

\* the steps of block_read taken one after the other on a good stream that
\* holds text, none left out: every extraction leaves the stream good, and
\* the four characters taken are '[', ']', '[' and ']'
CleanRead(text) ==
  LET g1 == get_char([text |-> text, pos |-> 1, ok |-> TRUE], "")
  IN \E r \in get_uint(g1.st, 0) :
       \E q \in get_uint(r.st, 0) :
         LET g2 == get_char(q.st, "")
             g3 == get_char(g2.st, "")
             b == SP_block_read(SP_default, g3.st)
             g4 == get_char(b.st, "")
         IN /\ g1.st.ok /\ g1.c = "["
            /\ r.st.ok /\ q.st.ok
            /\ g2.st.ok /\ g2.c = "]"
            /\ g3.st.ok /\ g3.c = "["
            /\ b.st.ok
            /\ g4.st.ok /\ g4.c = "]"

\* C18: block_read raises the I/O condition, and nothing else, whenever the
\* stream is not good at the call, one of the four delimiters taken from
\* the stream is another character, or the stream is not good after one of
\* the steps, as when the text ends in the header or after it: a
\* block_read that returns was given a good stream on which every step
\* succeeds and finds its delimiter.
C18_ReadFailsOnBadInput ==
  last.op = "block_read" =>
    /\ err \in {"none", "ExcIO"}
    /\ err = "none" => (last.good /\ CleanRead(last.text))

\* block_read has failed on a good stream whose text ends after the rows
\* of the header of a pattern that has rows
C18_Witness ==
  /\ last.op = "block_read"
  /\ last.good
  /\ err = "ExcIO"
  /\ stream.writer.rows > 0
  /\ stream.tokens = block_write(stream.writer)
  /\ last.text = SubSeq(stream.tokens, 1, 2)

\* C25: a copy assignment that returns leaves rows, cols and chunk_size of
\* the target as they were and makes its coarse structure that of a source
\* with rows = 0 and cols = 0, so a sized target keeps its dimensions; a
\* copy construction that gets past its checks and returns leaves an
\* object with rows = 0, cols = 0 and chunk_size = 0.
C25_AssignFrame ==
  [][/\ (last'.op = "operator=" /\ err' = "none") =>
          /\ UNCHANGED <<rows, cols, chunk_size>>
          /\ \E s \in AssignSources :
               /\ s.rows = 0 /\ s.cols = 0
               /\ sparsity_pattern' = s.sparsity_pattern
     /\ (last'.op = "ChunkSparsityPattern(s)" /\ err' = "none"
         /\ ~halted') =>
          (rows' = 0 /\ cols' = 0 /\ chunk_size' = 0)]_vars

\* a copy assignment has returned on a sized target, whose coarse structure
\* is now too small for its rows
C25_Witness ==
  /\ last.op = "operator="
  /\ err = "none"
  /\ rows > 0 /\ cols > 0 /\ chunk_size >= 1
  /\ (rows - 1) \div chunk_size >= sparsity_pattern.rows

\* C23: in every state in which the object can be called, every logical
\* pair (i, j) of the pattern with exists(i, j) true has
\* |i - j| <= bandwidth().
C23_BandwidthSound ==
  ~halted =>
    \A i \in 0..(rows - 1), j \in 0..(cols - 1) :
      exists(i, j) => (IF i < j THEN j - i ELSE i - j) <= bandwidth

\* an add has returned on a pattern with chunk_size 2, and an entry off
\* the diagonal lies as far out as bandwidth() says
C23_Witness ==
  /\ AfterAdd
  /\ chunk_size = 2
  /\ bandwidth > 0
  /\ \E i \in 0..(rows - 1), j \in 0..(cols - 1) :
       exists(i, j) /\ j - i = bandwidth

\* C24: an add, a compress or a symmetrize leaves rows, cols and chunk_size
\* as they were, and every logical pair with exists(i, j) true before the
\* call has exists(i, j) true after it, whether the call returns or raises.
C24_PresenceMonotone ==
  [][last'.op \in {"add", "compress", "symmetrize"} =>
       /\ UNCHANGED <<rows, cols, chunk_size>>
       /\ \A i \in 0..(rows - 1), j \in 0..(cols - 1) :
            exists(i, j) => exists(i, j)']_vars

\* an add has returned on a pattern that holds a chunk besides the one of
\* the add
C24_Witness ==
  /\ AfterAdd
  /\ ~last.rep
  /\ \E e \in sparsity_pattern.entries :
       e # <<last.i \div chunk_size, last.j \div chunk_size>>

C21_CopyFromProtocol ==
  AfterCopyFrom =>
    LET calls == last.calls
        n == Len(calls)
    IN /\ n = Cardinality(source.nz) + 2
       /\ calls[1] = Made("reinit", source.m, source.n,
                          [row \in 0..(source.m - 1) |->
                             row_length(source, row)])
       /\ calls[n] = Made("compress", 0, 0, <<>>)
       /\ \A k \in 2..(n - 1) : calls[k].f = "add"
       /\ \A e \in source.nz :
            Cardinality({k \in 2..(n - 1) :
                           calls[k].i = e[1] /\ calls[k].j = e[2]}) = 1
       /\ rows = source.m
       /\ cols = source.n

====
